---- MODULE Spec2Model ----
(***************************************************************************)
(* Model of src/work.py: a forward-Euler simulation of Order (O), Energy   *)
(* (E) and the derived Messiness (M = G - O), followed by a 3D plot.       *)
(*                                                                         *)
(* The script is modelled statement by statement; pc holds the line of the *)
(* next statement to execute.  Floating-point numbers are modelled as      *)
(* fixed-point integers with ONE units per 1.0; every multiplication and   *)
(* division rounds to the nearest unit, as every floating-point operation  *)
(* rounds to the nearest representable number.  np.exp is a truncated      *)
(* power series in the same arithmetic.                                    *)
(*                                                                         *)
(* The literals of lines 6-15 are the inputs: Init draws them from small   *)
(* sets that contain the values of the script.  The initial conditions of  *)
(* lines 24-25 are kept as the literals they are.                          *)
(***************************************************************************)
EXTENDS Integers, Sequences, FiniteSets, TLC

VARIABLES pc, par, steps, O, E, M, i, dO, dE, wlog, visited, plotted, hist, prev

vars == <<pc, par, steps, O, E, M, i, dO, dE, wlog, visited, plotted, hist, prev>>

\* ------------------------------------------------------------------------
\* Bounds
\* ------------------------------------------------------------------------
\* largest number of time steps int(T/dt) an input may ask for
MaxSteps == 4

\* number of terms after the constant one in the series of np.exp
ExpTerms == 8

\* ------------------------------------------------------------------------
\* Fixed-point arithmetic standing for the float64 operations
\* ------------------------------------------------------------------------
\* units per 1.0
ONE == 10000

Abs(x) == IF x < 0 THEN -x ELSE x

\* n / d rounded to the nearest integer (ties away from zero), d > 0
RoundDiv(n, d) ==
    IF n >= 0 THEN (n + (d \div 2)) \div d ELSE -(((-n) + (d \div 2)) \div d)

\* float product a * b
Mul(a, b) == RoundDiv(a * b, ONE)

\* float quotient a / b
FDiv(a, b) == RoundDiv(a * ONE, b)

\* the terms y^k / k!, k = from..ExpTerms, summed, given term = y^(from-1)/(from-1)!
RECURSIVE ExpSeries(_, _, _)
ExpSeries(y, term, from) ==
    IF from > ExpTerms THEN 0
    ELSE LET t == RoundDiv(term * y, ONE * from)
         IN  t + ExpSeries(y, t, from + 1)

\* np.exp(x) for x <= 0, as 1 / exp(-x)
Exp(x) == FDiv(ONE, ONE + ExpSeries(-x, ONE, 1))

\* int(T / dt): float division, then truncation toward zero (T >= 0, dt > 0)
IntDiv(T, dt) == FDiv(T, dt) \div ONE

\* ------------------------------------------------------------------------
\* The functions and expressions of the script
\* ------------------------------------------------------------------------
\* def f(M): return M * np.exp(-M**2)
f(m) == Mul(m, Exp(-Mul(m, m)))

\* def g(M): return 1.0 / (1.0 + M**2)
g(m) == FDiv(ONE, ONE + Mul(m, m))

\* slip: the difference taken the other way round
MessinessSwapped(G, o) == o - G

\* G - O[k]
Messiness(G, o) == G - o

\* slip: the decay term added instead of subtracted
dOvalDecayAdded(p, e, o, m) == Mul(Mul(p.alpha, e), f(m)) + Mul(p.delta, o)

\* alpha * E[i] * f(M[i]) - delta * O[i]
dOval(p, e, o, m) == Mul(Mul(p.alpha, e), f(m)) - Mul(p.delta, o)

\* r1 * g(M[i]) - r2 * E[i] * abs(f(M[i]))
dEval(p, e, m) == Mul(p.r1, g(m)) - Mul(Mul(p.r2, e), Abs(f(m)))

\* slip: the time step left out of the update
EulerStepNoDt(x, dx, dt) == x + dx

\* x + dx * dt
EulerStep(x, dx, dt) == x + Mul(dx, dt)

\* the literals of lines 24 and 25: 0.2 and 0.5
O0 == ONE \div 5
E0 == ONE \div 2

\* slip: one element too many
AllocOneMore(n) == {[k \in 0 .. n |-> 0]}

\* slip: np.empty(n), whose contents are whatever the memory held
AllocEmpty(n) == {[k \in 0 .. n - 1 |-> 0], [k \in 0 .. n - 1 |-> ONE]}

\* slip: np.ones(n)
AllocOnes(n) == {[k \in 0 .. n - 1 |-> ONE]}

\* np.zeros(n): the possible contents of a freshly allocated array
AllocValues(n) == {[k \in 0 .. n - 1 |-> 0]}

\* slip: range(steps)
RangeStopSteps(n) == n

\* range(steps - 1): the stop value of the loop's range
RangeStop(n) == n - 1

\* slip: the update stored in place, at index i
NextIndexSame(k) == k

\* the index written by lines 40 and 41 in iteration k
NextIndex(k) == k + 1

\* slip: line 35 storing one element ahead
MIndexNext(k) == k + 1

\* the index written by line 35 in iteration k
MIndex(k) == k

\* the index of line 43: M[-1]
LastIndex == -1

\* slip: the post-loop assignment of line 43 left out
AfterLoopPlot == "L46"

\* the statement that follows the loop
AfterLoop == "L43"

\* numpy index resolution: a negative index counts from the end
NormIndex(k, n) == IF k < 0 THEN k + n ELSE k

\* an index numpy accepts for an array of length n
ValidIndex(k, n) == NormIndex(k, n) >= 0 /\ NormIndex(k, n) < n

\* the value of array a at (numpy) index k
At(a, k, n) == a[NormIndex(k, n)]

\* ------------------------------------------------------------------------
\* Inputs
\* ------------------------------------------------------------------------
AlphaValues == {0, 2 * ONE}
DeltaValues == {ONE \div 2}
R1Values == {ONE, ONE \div 2}
R2Values == {(6 * ONE) \div 5, (3 * ONE) \div 5}
GValues == {ONE}
DtValues == {ONE \div 100, ONE \div 4}

\* the horizons T: whole multiples of dt and values half a step beyond them,
\* so that int(T / dt) has something to truncate
TValues(dt) == {n * dt + e : n \in 0 .. MaxSteps, e \in {0, dt \div 2}}

Params ==
    {p \in [alpha : AlphaValues, delta : DeltaValues, r1 : R1Values, r2 : R2Values,
            G : GValues, dt : DtValues, T : UNION {TValues(d) : d \in DtValues}] :
        p.T \in TValues(p.dt)}

\* ------------------------------------------------------------------------
\* State
\* ------------------------------------------------------------------------
\* pc       the line of the next statement; "done" after plt.show() returned,
\*          "crashed" after an uncaught IndexError
\* par      the parameters of lines 6-15
\* steps    line 16 (0 before it ran)
\* O, E, M  the arrays, indexed from 0 (<<>> before their allocation)
\* i        the loop variable (-1 before the first iteration; range yields i + 1)
\* dO, dE   the temporaries of lines 37-38 (0 before the first iteration)
\* wlog     history: every element store <<array, index, value>>, in order
\* visited  history: the values the loop variable took, in order
\* plotted  history: the triples <<O, E, M>> handed to ax.plot, in order
\* hist     history: the program states gone through so far
\* prev     the record of the previous run of the script (<<>> when there is none)

Snap == [pc |-> pc, i |-> i, O |-> O, E |-> E, M |-> M, dO |-> dO, dE |-> dE]

Start(p) ==
    /\ pc = "L16"
    /\ par = p
    /\ steps = 0
    /\ O = <<>> /\ E = <<>> /\ M = <<>>
    /\ i = -1
    /\ dO = 0 /\ dE = 0
    /\ wlog = <<>>
    /\ visited = <<>>
    /\ plotted = <<>>
    /\ hist = <<>>

Init == (\E p \in Params : Start(p)) /\ prev = <<>>

\* what an ordinary statement leaves alone besides the variables it names
Step(next) == pc' = next /\ hist' = Append(hist, Snap) /\ UNCHANGED <<par, prev>>

\* line 16: steps = int(T / dt)
L16 ==
    /\ pc = "L16"
    /\ steps' = IntDiv(par.T, par.dt)
    /\ Step("L19")
    /\ UNCHANGED <<O, E, M, i, dO, dE, wlog, visited, plotted>>

\* line 19: O = np.zeros(steps)
L19 ==
    /\ pc = "L19"
    /\ \E a \in AllocValues(steps) : O' = a
    /\ Step("L20")
    /\ UNCHANGED <<steps, E, M, i, dO, dE, wlog, visited, plotted>>

\* line 20: E = np.zeros(steps)
L20 ==
    /\ pc = "L20"
    /\ \E a \in AllocValues(steps) : E' = a
    /\ Step("L21")
    /\ UNCHANGED <<steps, O, M, i, dO, dE, wlog, visited, plotted>>

\* line 21: M = np.zeros(steps)
L21 ==
    /\ pc = "L21"
    /\ \E a \in AllocValues(steps) : M' = a
    /\ Step("L24")
    /\ UNCHANGED <<steps, O, E, i, dO, dE, wlog, visited, plotted>>

\* an uncaught IndexError ends the script
Crash ==
    /\ Step("crashed")
    /\ UNCHANGED <<steps, O, E, M, i, dO, dE, wlog, visited, plotted>>

\* line 24: O[0] = 0.2
L24 ==
    /\ pc = "L24"
    /\ IF ValidIndex(0, steps)
       THEN /\ O' = [O EXCEPT ![0] = O0]
            /\ wlog' = Append(wlog, <<"O", 0, O0>>)
            /\ Step("L25")
            /\ UNCHANGED <<steps, E, M, i, dO, dE, visited, plotted>>
       ELSE Crash

\* line 25: E[0] = 0.5
L25 ==
    /\ pc = "L25"
    /\ IF ValidIndex(0, steps)
       THEN /\ E' = [E EXCEPT ![0] = E0]
            /\ wlog' = Append(wlog, <<"E", 0, E0>>)
            /\ Step("L34")
            /\ UNCHANGED <<steps, O, M, i, dO, dE, visited, plotted>>
       ELSE Crash

\* line 34: for i in range(steps - 1)
L34 ==
    /\ pc = "L34"
    /\ IF i + 1 < RangeStop(steps)
       THEN /\ i' = i + 1
            /\ visited' = Append(visited, i + 1)
            /\ Step("L35")
       ELSE /\ UNCHANGED <<i, visited>>
            /\ Step(AfterLoop)
    /\ UNCHANGED <<steps, O, E, M, dO, dE, wlog, plotted>>

\* line 35: M[i] = G - O[i]
L35 ==
    /\ pc = "L35"
    /\ IF ValidIndex(i, steps) /\ ValidIndex(MIndex(i), steps)
       THEN LET k == NormIndex(MIndex(i), steps)
                v == Messiness(par.G, At(O, i, steps))
            IN  /\ M' = [M EXCEPT ![k] = v]
                /\ wlog' = Append(wlog, <<"M", k, v>>)
                /\ Step("L37")
                /\ UNCHANGED <<steps, O, E, i, dO, dE, visited, plotted>>
       ELSE Crash

\* line 37: dO = alpha * E[i] * f(M[i]) - delta * O[i]
L37 ==
    /\ pc = "L37"
    /\ IF ValidIndex(i, steps)
       THEN /\ dO' = dOval(par, At(E, i, steps), At(O, i, steps), At(M, i, steps))
            /\ Step("L38")
            /\ UNCHANGED <<steps, O, E, M, i, dE, wlog, visited, plotted>>
       ELSE Crash

\* line 38: dE = r1 * g(M[i]) - r2 * E[i] * abs(f(M[i]))
L38 ==
    /\ pc = "L38"
    /\ IF ValidIndex(i, steps)
       THEN /\ dE' = dEval(par, At(E, i, steps), At(M, i, steps))
            /\ Step("L40")
            /\ UNCHANGED <<steps, O, E, M, i, dO, wlog, visited, plotted>>
       ELSE Crash

\* line 40: O[i+1] = O[i] + dO * dt
L40 ==
    /\ pc = "L40"
    /\ IF ValidIndex(i, steps) /\ ValidIndex(NextIndex(i), steps)
       THEN LET k == NormIndex(NextIndex(i), steps)
                v == EulerStep(At(O, i, steps), dO, par.dt)
            IN  /\ O' = [O EXCEPT ![k] = v]
                /\ wlog' = Append(wlog, <<"O", k, v>>)
                /\ Step("L41")
                /\ UNCHANGED <<steps, E, M, i, dO, dE, visited, plotted>>
       ELSE Crash

\* line 41: E[i+1] = E[i] + dE * dt
L41 ==
    /\ pc = "L41"
    /\ IF ValidIndex(i, steps) /\ ValidIndex(NextIndex(i), steps)
       THEN LET k == NormIndex(NextIndex(i), steps)
                v == EulerStep(At(E, i, steps), dE, par.dt)
            IN  /\ E' = [E EXCEPT ![k] = v]
                /\ wlog' = Append(wlog, <<"E", k, v>>)
                /\ Step("L34")
                /\ UNCHANGED <<steps, O, M, i, dO, dE, visited, plotted>>
       ELSE Crash

\* line 43: M[-1] = G - O[-1]
L43 ==
    /\ pc = "L43"
    /\ IF ValidIndex(LastIndex, steps)
       THEN LET k == NormIndex(LastIndex, steps)
                v == Messiness(par.G, At(O, LastIndex, steps))
            IN  /\ M' = [M EXCEPT ![k] = v]
                /\ wlog' = Append(wlog, <<"M", k, v>>)
                /\ Step("L46")
                /\ UNCHANGED <<steps, O, E, i, dO, dE, visited, plotted>>
       ELSE Crash

\* lines 46-51: the figure, ax.plot(O, E, M) and the axis labels
L46 ==
    /\ pc = "L46"
    /\ plotted' = Append(plotted, <<O, E, M>>)
    /\ Step("L52")
    /\ UNCHANGED <<steps, O, E, M, i, dO, dE, wlog, visited>>

\* line 52: plt.show() blocks until the window is closed, then the script ends
L52 ==
    /\ pc = "L52"
    /\ Step("done")
    /\ UNCHANGED <<steps, O, E, M, i, dO, dE, wlog, visited, plotted>>

Next ==
    \/ L16 \/ L19 \/ L20 \/ L21 \/ L24 \/ L25
    \/ L34 \/ L35 \/ L37 \/ L38 \/ L40 \/ L41
    \/ L43 \/ L46 \/ L52

Spec == Init /\ [][Next]_vars

\* ------------------------------------------------------------------------
\* Two runs of the script, one after the other
\* ------------------------------------------------------------------------
Ended == pc \in {"done", "crashed"}

\* the script is started a second time, on the same time grid, once the first
\* run has ended; the first run's states and results are kept in prev
Rerun ==
    /\ Ended
    /\ prev = <<>>
    /\ prev' = <<[par |-> par, steps |-> steps, O |-> O, E |-> E, M |-> M,
                  hist |-> Append(hist, Snap), pc |-> pc]>>
    /\ \E p \in Params :
          /\ p.dt = par.dt /\ p.T = par.T
          /\ pc' = "L16"
          /\ par' = p
          /\ steps' = 0
          /\ O' = <<>> /\ E' = <<>> /\ M' = <<>>
          /\ i' = -1
          /\ dO' = 0 /\ dE' = 0
          /\ wlog' = <<>>
          /\ visited' = <<>>
          /\ plotted' = <<>>
          /\ hist' = <<>>

NextTwoRuns == Next \/ Rerun

SpecTwoRuns == Init /\ [][NextTwoRuns]_vars

\* ------------------------------------------------------------------------
\* Properties
\* ------------------------------------------------------------------------
\* the simulator has finished: the loop and the post-loop step are behind
Finished == pc \in {"L46", "L52", "done"}

\* the positions in wlog of the stores to element k of the array called name
StoresTo(name, k) == {j \in 1 .. Len(wlog) : wlog[j][1] = name /\ wlog[j][2] = k}

\* the indices stored to in the array called name, in the order of the stores
IndicesOf(name) ==
    LET w == SelectSeq(wlog, LAMBDA x : x[1] = name)
    IN  [j \in 1 .. Len(w) |-> w[j][2]]

\* the array called name
Arr(name) == IF name = "O" THEN O ELSE IF name = "E" THEN E ELSE M

\* C1: once the simulator has finished, M[k] = G - O[k] at every index k of
\* 0 .. steps-1, the last index included, for every steps >= 1.
C1_MessinessDerived ==
    (Finished /\ steps >= 1) => \A k \in 0 .. steps - 1 : M[k] = par.G - O[k]

C1_Witness ==
    /\ pc = "L46" /\ steps >= 3 /\ par.alpha > 0
    /\ M[steps - 1] = par.G - O[steps - 1]
    /\ M[steps - 1] # M[0]

\* C2: in the finished trajectory, for every k of 0 .. steps-2,
\* O[k+1] = O[k] + dt*(alpha*E[k]*f(G-O[k]) - delta*O[k]) and
\* E[k+1] = E[k] + dt*(r1*g(G-O[k]) - r2*E[k]*|f(G-O[k])|): both from the
\* values at index k only.
C2_Recurrence ==
    Finished =>
        \A k \in 0 .. steps - 2 :
            LET m == par.G - O[k]
            IN  /\ O[k + 1] = O[k] + Mul(Mul(Mul(par.alpha, E[k]), f(m))
                                         - Mul(par.delta, O[k]), par.dt)
                /\ E[k + 1] = E[k] + Mul(Mul(par.r1, g(m))
                                         - Mul(Mul(par.r2, E[k]), Abs(f(m))), par.dt)

C2_Witness ==
    /\ pc = "done" /\ steps >= 3 /\ par.alpha > 0
    /\ O[2] # O[1] /\ O[1] # O[0] /\ E[2] # E[1] /\ E[1] # E[0]

\* C3: steps = int(T/dt); O, E and M have exactly steps elements in every
\* state from their allocation on; every store targets an index of
\* 0 .. steps-1; and when the simulator has finished every element of the
\* three arrays has been stored to.
C3_ExactlyStepsValues ==
    /\ pc # "L16" => steps = FDiv(par.T, par.dt) \div ONE
    /\ pc \notin {"L16", "L19"} => DOMAIN O = 0 .. steps - 1
    /\ pc \notin {"L16", "L19", "L20"} => DOMAIN E = 0 .. steps - 1
    /\ pc \notin {"L16", "L19", "L20", "L21"} => DOMAIN M = 0 .. steps - 1
    /\ \A j \in 1 .. Len(wlog) : wlog[j][2] \in 0 .. steps - 1
    /\ Finished =>
          \A name \in {"O", "E", "M"} : \A k \in 0 .. steps - 1 : StoresTo(name, k) # {}

C3_Witness ==
    /\ pc = "done" /\ steps >= 3 /\ par.T > steps * par.dt
    /\ Len(wlog) = 3 * steps

\* C4: O[0] = 0.2 and E[0] = 0.5 in every state after the initial conditions
\* are set, up to the hand-off to the renderer; nothing but lines 24 and 25
\* stores to index 0 of O or E.
C4_InitialConditionsKept ==
    /\ StoresTo("O", 0) # {} => (O[0] = O0 /\ StoresTo("O", 0) = {1})
    /\ StoresTo("E", 0) # {} => (E[0] = E0 /\ StoresTo("E", 0) = {2})
    /\ pc \in {"L34", "L35", "L37", "L38", "L40", "L41", "L43", "L46", "L52", "done"} =>
          (StoresTo("O", 0) # {} /\ StoresTo("E", 0) # {})
    /\ \A j \in 1 .. Len(plotted) : plotted[j][1][0] = O0 /\ plotted[j][2][0] = E0

C4_Witness ==
    /\ pc = "L52" /\ steps >= 3 /\ Len(plotted) = 1
    /\ O[0] = O0 /\ E[0] = E0 /\ O[1] # O0 /\ E[1] # E0

\* C5: the arrays are filled left to right and not changed afterwards: the
\* stores to O and to E go to the indices 0, 1, 2, ... in that order, those to
\* M likewise (M[i] in iteration i, M[steps-1] after the loop), so no element
\* is stored to twice; every element of M has been stored to exactly once when
\* the simulator has finished; and every element stored to still holds the
\* value stored.
C5_FilledOnceLeftToRight ==
    /\ \A name \in {"O", "E", "M"} :
          \A j \in DOMAIN IndicesOf(name) : IndicesOf(name)[j] = j - 1
    /\ pc \in {"L35", "L37", "L38", "L40", "L41"} =>
          /\ Len(IndicesOf("M")) = IF pc = "L35" THEN i ELSE i + 1
          /\ Len(IndicesOf("O")) = IF pc \in {"L41"} THEN i + 2 ELSE i + 1
          /\ Len(IndicesOf("E")) = i + 1
    /\ pc = "L43" => Len(IndicesOf("M")) = steps - 1
    /\ Finished => \A k \in 0 .. steps - 1 : Cardinality(StoresTo("M", k)) = 1
    /\ \A j \in 1 .. Len(wlog) : Arr(wlog[j][1])[wlog[j][2]] = wlog[j][3]

C5_Witness ==
    /\ pc = "done" /\ steps >= 3
    /\ IndicesOf("O") = [j \in 1 .. steps |-> j - 1]
    /\ IndicesOf("M") = [j \in 1 .. steps |-> j - 1]
    /\ wlog[Len(wlog)] = <<"M", steps - 1, M[steps - 1]>>

\* C6: the simulator runs to completion before the renderer runs: the arrays
\* are handed to ax.plot exactly once, only after all steps-1 loop iterations
\* and the post-loop store to M[steps-1], and no element of O, E or M differs
\* afterwards from what was handed over.
C6_SimulatorBeforeRenderer ==
    /\ Len(plotted) <= 1
    /\ pc \in {"L52", "done"} <=> Len(plotted) = 1
    /\ Len(plotted) = 1 =>
          /\ Len(visited) = steps - 1
          /\ StoresTo("M", steps - 1) # {}
          /\ wlog[Len(wlog)] = <<"M", steps - 1, par.G - O[steps - 1]>>
          /\ plotted[1] = <<O, E, M>>

C6_Witness ==
    /\ pc = "done" /\ steps >= 3 /\ Len(plotted) = 1
    /\ plotted[1] = <<O, E, M>>
    /\ Len(visited) = steps - 1

\* C7: for every steps >= 1 the loop ends after exactly steps-1 iterations,
\* which take i = 0, 1, ..., steps-2 once each in increasing order (none when
\* steps = 1); no iteration runs with i = steps-1; and the script never stops
\* inside the loop.
C7_LoopIterations ==
    steps >= 1 =>
        /\ \A j \in 1 .. Len(visited) : visited[j] = j - 1
        /\ Len(visited) <= steps - 1
        /\ pc \in {"L35", "L37", "L38", "L40", "L41"} =>
              (i = visited[Len(visited)] /\ i <= steps - 2)
        /\ pc \in {"L43", "L46", "L52", "done"} => Len(visited) = steps - 1
        /\ pc # "crashed"
        /\ pc \in {"L34", "L35", "L37", "L38", "L40", "L41"} => ENABLED Next

C7_Witness ==
    /\ pc = "L43" /\ steps >= 3
    /\ visited = [j \in 1 .. steps - 1 |-> j - 1]
    /\ i = steps - 2

\* C10: at loop exit, before line 43, M[k] = G - O[k] for every k <= steps-2
\* while M[steps-1] still holds the 0 of its allocation; line 43 then stores
\* G - O[steps-1] to M[steps-1] and changes no other element of O, E or M.
C10_LastElementPatched ==
    /\ pc = "L43" =>
          /\ \A k \in 0 .. steps - 2 : M[k] = par.G - O[k]
          /\ M[steps - 1] = 0
          /\ StoresTo("M", steps - 1) = {}
    /\ pc = "L46" =>
          LET before == hist[Len(hist)]
          IN  /\ before.pc = "L43"
              /\ O = before.O /\ E = before.E
              /\ M = [before.M EXCEPT ![steps - 1] = par.G - O[steps - 1]]
              /\ Cardinality(StoresTo("M", steps - 1)) = 1

C10_Witness ==
    /\ pc = "L46" /\ steps >= 3
    /\ hist[Len(hist)].M[steps - 1] = 0
    /\ M[steps - 1] # 0
    /\ O[steps - 1] # par.G

\* the two runs share alpha = 0 and the rest of what O depends on then
SameDecay(q) ==
    /\ par.alpha = 0 /\ q.alpha = 0
    /\ q.delta = par.delta /\ q.G = par.G /\ q.dt = par.dt /\ q.T = par.T

C9_Deterministic ==
    (prev # <<>> /\ prev[1].par = par) =>
        /\ Len(hist) < Len(prev[1].hist)
        /\ \A j \in 1 .. Len(hist) : hist[j] = prev[1].hist[j]
        /\ Snap = prev[1].hist[Len(hist) + 1]
        /\ Ended => /\ Len(hist) + 1 = Len(prev[1].hist)
                    /\ O = prev[1].O /\ E = prev[1].E /\ M = prev[1].M

C9_Witness ==
    /\ pc = "done" /\ steps >= 3 /\ par.alpha > 0
    /\ prev # <<>> /\ prev[1].par = par
    /\ O = prev[1].O /\ E = prev[1].E /\ M = prev[1].M
    /\ Len(hist) + 1 = Len(prev[1].hist)

====
